---- MODULE Spec2Model ----
(***************************************************************************)
(* Model of the RPC-over-AMQP client of the water-usage-forecasts REST     *)
(* service: the correlation registry (responses / events), the pump thread *)
(* (__process_data_events and __on_message_received), publish_message and  *)
(* the places of the HTTP layer that send a request and wait for the reply.*)
(* Further parts of the service, each under a specification of its own:    *)
(* the _token_check and etag_comparison middlewares, the validation of     *)
(* WaterUsages, is_host_available and the CSV imports.                     *)
(***************************************************************************)
EXTENDS Integers, Sequences, FiniteSets, TLC

\* ---------------------------------------------------------------- bounds
NumCallers == 2        \* caller threads, each performs one send-and-wait
MaxDeliveries == 2     \* deliveries a responder places on the reply queue
NumHttpRequests == 1   \* HTTP requests in flight in the HTTP layer's specification
CallerTimeout == 1     \* timeout a direct caller of publish_message waits with
WakeLatency == 1       \* time a timed-out waiter may still need to be scheduled
MaxHeaderLen == 3      \* pieces of text in an Authorization header
NumYears == 4          \* years a WaterUsages object may start or end in
MaxUsages == 4         \* longest usages list of a WaterUsages object
MaxTime == 2           \* latest time of a modification or of an If-Modified-Since header
MaxRows == 3           \* rows of an imported CSV file

\* ------------------------------------------------------ program constants
TokenCheckTimeout == 5     \* await_response(..., timeout=5)
ForecastTimeout == 120     \* await_response(_query_id, timeout=120)
DefaultTimeout == 10       \* is_host_available(host, port, timeout=10)
AttemptTimeout == 5        \* asyncio.wait_for(open_connection(...), timeout=5)
RetrySleep == 5            \* asyncio.sleep(5)

\* ---------------------------------------------------------------- values
Callers == 1..NumCallers
HttpCallers == 1..NumHttpRequests
HttpSites == {"token_check", "forecast"}
Sites == {"publish_message"} \cup HttpSites

\* Optional values: Python's None and a present value.
None == <<>>
Some(x) == <<x>>

\* Correlation ids.  uuid4 ids are modelled as fresh integers 1, 2, ...;
\* 0 is an id no call of this client ever used, -1 a delivery without
\* correlation_id property (properties.correlation_id is None).
ForeignId == 0
MissingId == -1
UnmatchedIds == {ForeignId, MissingId}
IssuedIds == 1..(2 * NumCallers)

\* Reply bodies as bytes: "P", the two-byte encoding of U+00E9, and a byte
\* sequence that is not UTF-8.
Bodies == {<<80>>, <<195, 169>>, <<255>>}

NoDelivery == [cid |-> -2, body |-> <<>>, tag |-> 0]

\* bytes.decode('utf-8') for one- and two-byte sequences: the code points,
\* or a failure (UnicodeDecodeError).
RECURSIVE Utf8Decode(_)
Utf8Decode(b) ==
    IF b = <<>> THEN [ok |-> TRUE, str |-> <<>>]
    ELSE IF b[1] < 128
         THEN LET r == Utf8Decode(Tail(b))
              IN  [ok |-> r.ok, str |-> IF r.ok THEN <<b[1]>> \o r.str ELSE <<>>]
    ELSE IF b[1] \in 194..223 /\ Len(b) >= 2 /\ b[2] \in 128..191
         THEN LET r == Utf8Decode(Tail(Tail(b)))
              IN  [ok |-> r.ok,
                   str |-> IF r.ok
                           THEN <<(b[1] - 192) * 64 + (b[2] - 128)>> \o r.str
                           ELSE <<>>]
    ELSE [ok |-> FALSE, str |-> <<>>]

\* the name under which caller t holds the lock
Holder(t) == ToString(t)

\* dict[key] = value
Put(f, k, v) == [x \in DOMAIN f \cup {k} |-> IF x = k THEN v ELSE f[x]]

VARIABLES
    responses,    \* AMQPRPCClient.responses: id -> None | Some(str)
    events,       \* AMQPRPCClient.events: id -> is the threading.Event set
    lock,         \* __internal_lock: "free", "pump" or the caller holding it
    conn,         \* the broker connection: "open" or "broken"
    pumpPc,       \* position of the pump thread
    pumpCur,      \* the delivery the message handler is working on
    pumpError,    \* the exception that ended the pump thread ("" if none)
    replyLog,     \* every delivery placed on the reply queue, in order
    qHead,        \* number of deliveries of replyLog already taken off the queue
    acked,        \* bag of acknowledged delivery tags: tag -> count
    published,    \* messages handed to basic_publish
    nextId,       \* next fresh correlation id
    pc,           \* position of each caller
    site,         \* the place of the program each caller sends from
    cid,          \* correlation id of the caller's current send
    attempts,     \* sends the caller started
    reconnects,   \* reconnects the caller performed
    result,       \* what the caller's wait returned
    waitKind,     \* how the wait ended: "", "immediate", "woken", "timeout"
    elapsed,      \* time the caller has been waiting
    got,          \* result of the caller's last non-blocking read
    reads,        \* number of non-blocking reads of the caller
    http,         \* response the HTTP caller produced from the wait's result
    lastStored,   \* history: last payload the handler decoded per correlation id
    tokenCheck,   \* one request passing through the _token_check middleware
    waterUsages,  \* one WaterUsages object under validation
    etagCheck,    \* one request passing through the etag_comparison middleware
    hostCheck,    \* one call of is_host_available
    csvImport     \* one CSV import and the table it writes to

vars == <<responses, events, lock, conn, pumpPc, pumpCur, pumpError, replyLog,
          qHead, acked, published, nextId, pc, site, cid, attempts, reconnects,
          result, waitKind, elapsed, got, reads, http, lastStored,
          tokenCheck, waterUsages, etagCheck, hostCheck, csvImport>>

\* the state of the messaging client and of its callers
clientVars == <<responses, events, lock, conn, pumpPc, pumpCur, pumpError,
                replyLog, qHead, acked, published, nextId, pc, site, cid,
                attempts, reconnects, result, waitKind, elapsed, got, reads,
                http, lastStored>>

\* the state of the other parts of the service
auxVars == <<tokenCheck, waterUsages, etagCheck, hostCheck, csvImport>>

callerVars == <<pc, site, cid, attempts, reconnects, result, waitKind, elapsed,
                got, reads, http>>
waitVars == <<result, waitKind, elapsed, got, reads, http>>

AllIds == IssuedIds \cup UnmatchedIds

NoHttp == [status |-> 0, error |-> ""]

\* nothing but the messaging client is in use
NotInUse == [pc |-> "off"]

ClientInit ==
    /\ responses = [x \in {} |-> None]
    /\ events = [x \in {} |-> FALSE]
    /\ lock = "free"
    /\ conn = "open"
    /\ pumpPc = "consume"
    /\ pumpCur = NoDelivery
    /\ pumpError = ""
    /\ replyLog = <<>>
    /\ qHead = 0
    /\ acked = [x \in {} |-> 0]
    /\ published = {}
    /\ nextId = 1
    /\ pc = [t \in Callers |-> "idle"]
    /\ site = [t \in Callers |-> "publish_message"]
    /\ cid = [t \in Callers |-> 0]
    /\ attempts = [t \in Callers |-> 0]
    /\ reconnects = [t \in Callers |-> 0]
    /\ result = [t \in Callers |-> None]
    /\ waitKind = [t \in Callers |-> ""]
    /\ elapsed = [t \in Callers |-> 0]
    /\ got = [t \in Callers |-> None]
    /\ reads = [t \in Callers |-> 0]
    /\ http = [t \in Callers |-> NoHttp]
    /\ lastStored = [x \in AllIds |-> None]

Init ==
    /\ ClientInit
    /\ tokenCheck = NotInUse
    /\ waterUsages = NotInUse
    /\ etagCheck = NotInUse
    /\ hostCheck = NotInUse
    /\ csvImport = NotInUse

\* ------------------------------------------------------------ pump thread

\* Mutation: the lock is taken and released by hand, so that an exception
\* leaves it held.
PumpDiesHoldingLock(err) ==
    /\ pumpPc' = "dead"
    /\ pumpError' = err
    /\ lock' = lock

\* The pump thread ends with an exception; a `with` block releases the lock.
PumpDies(err) ==
    /\ pumpPc' = "dead"
    /\ pumpError' = err
    /\ lock' = IF lock = "pump" THEN "free" ELSE lock

\* basic_consume(queue, __on_message_received, auto_ack=False), no lock held
PumpConsume ==
    /\ pumpPc = "consume"
    /\ IF conn = "open"
       THEN pumpPc' = "acquire" /\ UNCHANGED <<pumpError, lock>>
       ELSE PumpDies("ConnectionError")
    /\ UNCHANGED <<responses, events, conn, pumpCur, replyLog, qHead, acked,
                   published, nextId, callerVars, lastStored>>
    /\ UNCHANGED auxVars

\* with self.__internal_lock:
PumpAcquire ==
    /\ pumpPc = "acquire"
    /\ lock = "free"
    /\ lock' = "pump"
    /\ pumpPc' = "poll"
    /\ UNCHANGED <<responses, events, conn, pumpCur, pumpError, replyLog, qHead,
                   acked, published, nextId, callerVars, lastStored>>
    /\ UNCHANGED auxVars

\* connection.process_data_events(): dispatches the deliveries of the reply
\* queue to the handler one after the other, then returns.
PumpPoll ==
    /\ pumpPc = "poll"
    /\ IF conn = "broken"
       THEN PumpDies("ConnectionError") /\ UNCHANGED <<pumpCur, qHead>>
       ELSE IF qHead < Len(replyLog)
       THEN /\ pumpCur' = replyLog[qHead + 1]
            /\ qHead' = qHead + 1
            /\ pumpPc' = "store"
            /\ UNCHANGED <<pumpError, lock>>
       ELSE /\ pumpPc' = "sleep"
            /\ UNCHANGED <<pumpCur, qHead, pumpError, lock>>
    /\ UNCHANGED <<responses, events, conn, replyLog, acked, published, nextId,
                   callerVars, lastStored>>
    /\ UNCHANGED auxVars

\* Mutation: the payload is stored for the most recently registered call
\* instead of the call the delivery's correlation id names.
HandlerStoreLatest(resp, d) ==
    LET latest == IF DOMAIN resp = {} THEN d.cid
                  ELSE CHOOSE k \in DOMAIN resp : \A j \in DOMAIN resp : j <= k
    IN  Put(resp, latest, Some(Utf8Decode(d.body).str))

\* Mutation: the payload is stored as the raw bytes, without decoding.
HandlerStoreRaw(resp, d) == Put(resp, d.cid, Some(d.body))

\* Mutation: the handler signals without having kept the payload.
HandlerStoreNothing(resp, d) == Put(resp, d.cid, None)

\* self.responses[properties.correlation_id] = content.decode('utf-8')
HandlerStore(resp, d) == Put(resp, d.cid, Some(Utf8Decode(d.body).str))

PumpStore ==
    /\ pumpPc = "store"
    /\ IF Utf8Decode(pumpCur.body).ok
       THEN /\ responses' = HandlerStore(responses, pumpCur)
            /\ lastStored' = [lastStored EXCEPT
                                ![pumpCur.cid] = Some(Utf8Decode(pumpCur.body).str)]
            /\ pumpPc' = "ack"
            /\ UNCHANGED <<pumpError, lock>>
       ELSE /\ PumpDies("UnicodeDecodeError")
            /\ UNCHANGED <<responses, lastStored>>
    /\ UNCHANGED <<events, conn, pumpCur, replyLog, qHead, acked, published,
                   nextId, callerVars>>
    /\ UNCHANGED auxVars

\* self.__channel.basic_ack(method.delivery_tag)
PumpAck ==
    /\ pumpPc = "ack"
    /\ IF conn = "open"
       THEN /\ acked' = Put(acked, pumpCur.tag,
                            IF pumpCur.tag \in DOMAIN acked
                            THEN acked[pumpCur.tag] + 1 ELSE 1)
            /\ pumpPc' = "signal"
            /\ UNCHANGED <<pumpError, lock>>
       ELSE PumpDies("ConnectionError") /\ UNCHANGED acked
    /\ UNCHANGED <<responses, events, conn, pumpCur, replyLog, qHead, published,
                   nextId, callerVars, lastStored>>
    /\ UNCHANGED auxVars

\* Mutation: the handler wakes every registered call, not only the one the
\* delivery's correlation id names.
HandlerSignalAll(ev, d) == [k \in DOMAIN ev |-> TRUE]

\* event = self.events[properties.correlation_id]; event.set()
HandlerSignal(ev, d) == [ev EXCEPT ![d.cid] = TRUE]

PumpSignal ==
    /\ pumpPc = "signal"
    /\ IF pumpCur.cid \in DOMAIN events
       THEN /\ events' = HandlerSignal(events, pumpCur)
            /\ pumpPc' = "poll"
            /\ UNCHANGED <<pumpError, lock>>
       ELSE PumpDies("KeyError") /\ UNCHANGED events
    /\ UNCHANGED <<responses, conn, pumpCur, replyLog, qHead, acked, published,
                   nextId, callerVars, lastStored>>
    /\ UNCHANGED auxVars

\* sleep(0.1) inside the with block, then the block ends and the loop repeats
PumpSleepRelease ==
    /\ pumpPc = "sleep"
    /\ lock' = "free"
    /\ pumpPc' = "acquire"
    /\ UNCHANGED <<responses, events, conn, pumpCur, pumpError, replyLog, qHead,
                   acked, published, nextId, callerVars, lastStored>>
    /\ UNCHANGED auxVars

\* --------------------------------------------------------- publish_message

ReplyQueue == "amq.gen-reply"

\* self.__channel.queue_declare('', exclusive=True, auto_delete=True) in the
\* constructor; ReplyQueue is the name the broker gave the queue
QueueDeclare == [queue |-> ReplyQueue, exclusive |-> TRUE, auto_delete |-> TRUE]

\* Mutation: the properties name no reply queue.
BasicPropertiesNoReplyTo(id) == [cid |-> id, reply_to |-> ""]

\* pika.BasicProperties(reply_to=self.__msg_callback_queue,
\*                      correlation_id=__correlation_id)
BasicProperties(id) == [cid |-> id, reply_to |-> QueueDeclare.queue]

\* self.responses[__correlation_id] = None
RegisterResponse(resp, id) == Put(resp, id, None)

\* Mutation: the event is not registered before the message is published.
RegisterEventMissing(ev, id) == ev

\* self.events[__correlation_id] = __message_received_event
RegisterEvent(ev, id) == Put(ev, id, FALSE)

\* Mutation: every call is given the same id.
SameCorrelationId(n) == CHOOSE i \in IssuedIds : \A j \in IssuedIds : i <= j

\* 'request#' + str(uuid.uuid4()): the n-th id drawn is an id never drawn before
NewCorrelationId(n) == n

\* __correlation_id = 'request#' + str(uuid.uuid4()) and the first registry write
BeginSend(t) ==
    /\ nextId \in IssuedIds
    /\ cid' = [cid EXCEPT ![t] = NewCorrelationId(nextId)]
    /\ nextId' = nextId + 1
    /\ responses' = RegisterResponse(responses, NewCorrelationId(nextId))
    /\ attempts' = [attempts EXCEPT ![t] = @ + 1]
    /\ pc' = [pc EXCEPT ![t] = "reg_event"]

\* A caller starts a send from one of the places of the program that send.
SendRegister(t, s) ==
    /\ pc[t] = "idle"
    /\ site' = [site EXCEPT ![t] = s]
    /\ BeginSend(t)
    /\ UNCHANGED <<events, lock, conn, pumpPc, pumpCur, pumpError, replyLog,
                   qHead, acked, published, reconnects, waitVars, lastStored>>
    /\ UNCHANGED auxVars

SendRegisterEvent(t) ==
    /\ pc[t] = "reg_event"
    /\ events' = RegisterEvent(events, cid[t])
    /\ pc' = [pc EXCEPT ![t] = "lock"]
    /\ UNCHANGED <<responses, lock, conn, pumpPc, pumpCur, pumpError, replyLog,
                   qHead, acked, published, nextId, site, cid, attempts,
                   reconnects, waitVars, lastStored>>
    /\ UNCHANGED auxVars

\* with self.__internal_lock:
SendAcquire(t) ==
    /\ pc[t] = "lock"
    /\ lock = "free"
    /\ lock' = Holder(t)
    /\ pc' = [pc EXCEPT ![t] = "publish"]
    /\ UNCHANGED <<responses, events, conn, pumpPc, pumpCur, pumpError, replyLog,
                   qHead, acked, published, nextId, site, cid, attempts,
                   reconnects, waitVars, lastStored>>
    /\ UNCHANGED auxVars

\* Where a failed send continues: the token-check middleware catches the
\* first failure and builds a new client, every other place lets it propagate.
AfterSendFailure(s, n) ==
    IF s = "token_check" /\ n = 1 THEN "reconnect" ELSE "raised"

\* self.__channel.basic_publish(...): raises on a broken connection, and the
\* with block releases the lock.
SendPublish(t) ==
    /\ pc[t] = "publish"
    /\ lock' = IF conn = "open" THEN lock ELSE "free"
    /\ published' = IF conn = "open"
                    THEN published \cup {BasicProperties(cid[t])}
                    ELSE published
    /\ pc' = [pc EXCEPT ![t] = IF conn = "open" THEN "unlock"
                               ELSE AfterSendFailure(site[t], attempts[t])]
    /\ UNCHANGED <<responses, events, conn, pumpPc, pumpCur, pumpError, replyLog,
                   qHead, acked, nextId, site, cid, attempts, reconnects,
                   waitVars, lastStored>>
    /\ UNCHANGED auxVars

\* Mutation: the call returns only once the reply to it has arrived.
SendReturnAfterReply(t) ==
    /\ pc[t] = "unlock"
    /\ cid[t] \in DOMAIN events /\ events[cid[t]]
    /\ lock' = "free"
    /\ pc' = [pc EXCEPT ![t] = "returned"]
    /\ UNCHANGED <<responses, events, conn, pumpPc, pumpCur, pumpError, replyLog,
                   qHead, acked, published, nextId, site, cid, attempts,
                   reconnects, waitVars, lastStored>>
    /\ UNCHANGED auxVars

\* end of the with block; return __correlation_id, __message_received_event
SendReturn(t) ==
    /\ pc[t] = "unlock"
    /\ lock' = "free"
    /\ pc' = [pc EXCEPT ![t] = "returned"]
    /\ UNCHANGED <<responses, events, conn, pumpPc, pumpCur, pumpError, replyLog,
                   qHead, acked, published, nextId, site, cid, attempts,
                   reconnects, waitVars, lastStored>>
    /\ UNCHANGED auxVars

\* _amqp_client = amqp_rpc_client.Client(...): a new connection, a new reply
\* queue and a new pump thread; the constructor raises if the broker is
\* unreachable.  The pump of the replaced client ends on its broken connection.
Reconnect(t, ok) ==
    /\ pc[t] = "reconnect"
    /\ reconnects' = [reconnects EXCEPT ![t] = @ + 1]
    /\ IF ok
       THEN /\ conn' = "open"
            /\ pumpPc' = "consume"
            /\ pumpCur' = NoDelivery
            /\ pumpError' = ""
            /\ qHead' = Len(replyLog)
            /\ lock' = IF lock = "pump" THEN "free" ELSE lock
            /\ pc' = [pc EXCEPT ![t] = "retry"]
       ELSE /\ pc' = [pc EXCEPT ![t] = "raised"]
            /\ UNCHANGED <<conn, pumpPc, pumpCur, pumpError, qHead, lock>>
    /\ UNCHANGED <<responses, events, replyLog, acked, published, nextId, site,
                   cid, attempts, waitVars, lastStored>>
    /\ UNCHANGED auxVars

\* the second _amqp_client.send(...) of the token check
Resend(t) ==
    /\ pc[t] = "retry"
    /\ BeginSend(t)
    /\ UNCHANGED <<events, lock, conn, pumpPc, pumpCur, pumpError, replyLog,
                   qHead, acked, published, site, reconnects, waitVars,
                   lastStored>>
    /\ UNCHANGED auxVars

\* ------------------------------------------------- waiting for the reply

\* timeout of the wait at each place that sends
TimeoutOf(s) ==
    CASE s = "token_check" -> TokenCheckTimeout
      [] s = "forecast" -> ForecastTimeout
      [] OTHER -> CallerTimeout

\* Mutation: the middleware does not test the result for None.
TokenCheckNoTimeoutCheck(raw) == NoHttp

\* _token_check after await_response: no reply within the timeout is answered
\* with a 500 response; any reply goes on to the introspection checks.
TokenCheckOnResponse(raw) ==
    IF raw = None
    THEN [status |-> 500, error |-> "TOKEN_INTROSPECTION_TIMEOUT"]
    ELSE NoHttp

\* forecast after await_response
ForecastOnResponse(raw) ==
    IF raw = None
    THEN [status |-> 500, error |-> "FORECAST_CALCULATION_TIMEOUT"]
    ELSE [status |-> 200, error |-> ""]

OnAwaitResult(s, raw) ==
    CASE s = "token_check" -> TokenCheckOnResponse(raw)
      [] s = "forecast" -> ForecastOnResponse(raw)
      [] OTHER -> NoHttp

\* take(id) / getResponse(id): non-blocking read of the registry
GetResponse(id) == IF id \in DOMAIN responses THEN responses[id] ELSE None

IsSet(id) == id \in DOMAIN events /\ events[id]

WaitEnds(t, kind, raw) ==
    /\ result' = [result EXCEPT ![t] = raw]
    /\ waitKind' = [waitKind EXCEPT ![t] = kind]
    /\ http' = [http EXCEPT ![t] = OnAwaitResult(site[t], raw)]
    /\ pc' = [pc EXCEPT ![t] = "done"]

\* wait(id, timeout) is invoked: it returns at once if the event is set
WaitBegin(t) ==
    /\ pc[t] = "returned"
    /\ IF IsSet(cid[t])
       THEN WaitEnds(t, "immediate", GetResponse(cid[t]))
       ELSE /\ pc' = [pc EXCEPT ![t] = "waiting"]
            /\ UNCHANGED <<result, waitKind, http>>
    /\ UNCHANGED <<responses, events, lock, conn, pumpPc, pumpCur, pumpError,
                   replyLog, qHead, acked, published, nextId, site, cid,
                   attempts, reconnects, elapsed, got, reads, lastStored>>
    /\ UNCHANGED auxVars

\* the event is set while the caller is blocked
WaitWake(t) ==
    /\ pc[t] = "waiting"
    /\ IsSet(cid[t])
    /\ WaitEnds(t, "woken", GetResponse(cid[t]))
    /\ UNCHANGED <<responses, events, lock, conn, pumpPc, pumpCur, pumpError,
                   replyLog, qHead, acked, published, nextId, site, cid,
                   attempts, reconnects, elapsed, got, reads, lastStored>>
    /\ UNCHANGED auxVars

\* the timeout elapses with the event not set
WaitTimeout(t) ==
    /\ pc[t] = "waiting"
    /\ ~IsSet(cid[t])
    /\ elapsed[t] >= TimeoutOf(site[t])
    /\ WaitEnds(t, "timeout", None)
    /\ UNCHANGED <<responses, events, lock, conn, pumpPc, pumpCur, pumpError,
                   replyLog, qHead, acked, published, nextId, site, cid,
                   attempts, reconnects, elapsed, got, reads, lastStored>>
    /\ UNCHANGED auxVars

\* a later non-blocking read of the id
Take(t) ==
    /\ pc[t] = "done"
    /\ got' = [got EXCEPT ![t] = GetResponse(cid[t])]
    /\ reads' = [reads EXCEPT ![t] = 1]
    /\ UNCHANGED <<responses, events, lock, conn, pumpPc, pumpCur, pumpError,
                   replyLog, qHead, acked, published, nextId, pc, site, cid,
                   attempts, reconnects, result, waitKind, elapsed, http,
                   lastStored>>
    /\ UNCHANGED auxVars

\* ------------------------------------------------------------ environment

Waiting == {t \in Callers : pc[t] = "waiting"}
Remaining(t) == TimeoutOf(site[t]) - elapsed[t]

\* Time passes for every blocked waiter; it moves to the next deadline, and
\* past a deadline by at most WakeLatency.
TimeSteps ==
    {Remaining(t) : t \in Waiting}
        \cup (IF \E t \in Waiting : Remaining(t) <= 0 THEN 1..WakeLatency ELSE {})

AdvanceTime(d) ==
    /\ d > 0
    /\ \A t \in Waiting : elapsed[t] + d <= TimeoutOf(site[t]) + WakeLatency
    /\ elapsed' = [t \in Callers |->
                      IF t \in Waiting THEN elapsed[t] + d ELSE elapsed[t]]
    /\ UNCHANGED <<responses, events, lock, conn, pumpPc, pumpCur, pumpError,
                   replyLog, qHead, acked, published, nextId, pc, site, cid,
                   attempts, reconnects, result, waitKind, got, reads, http,
                   lastStored>>
    /\ UNCHANGED auxVars

\* A responder (or anyone who knows the queue name) places a delivery on the
\* reply queue: a reply to a published request, or one matching no call.
ReplyIds == {m.cid : m \in published} \cup UnmatchedIds

Reply(c, b) ==
    /\ conn = "open"
    /\ Len(replyLog) < MaxDeliveries
    /\ replyLog' = Append(replyLog,
                          [cid |-> c, body |-> b, tag |-> Len(replyLog) + 1])
    /\ UNCHANGED <<responses, events, lock, conn, pumpPc, pumpCur, pumpError,
                   qHead, acked, published, nextId, callerVars, lastStored>>
    /\ UNCHANGED auxVars

\* the connection to the broker is lost
DropConnection ==
    /\ conn = "open"
    /\ conn' = "broken"
    /\ UNCHANGED <<responses, events, lock, pumpPc, pumpCur, pumpError, replyLog,
                   qHead, acked, published, nextId, callerVars, lastStored>>
    /\ UNCHANGED auxVars

\* ------------------------------------------------------------ specification

\* steps of the client that every caller of it shares
ClientNext ==
    \/ PumpConsume
    \/ PumpAcquire
    \/ PumpPoll
    \/ PumpStore
    \/ PumpAck
    \/ PumpSignal
    \/ PumpSleepRelease
    \/ \E t \in Callers : SendRegisterEvent(t)
    \/ \E t \in Callers : SendAcquire(t)
    \/ \E t \in Callers : SendPublish(t)
    \/ \E t \in Callers : SendReturn(t)
    \/ \E t \in Callers : WaitBegin(t)
    \/ \E t \in Callers : WaitWake(t)
    \/ \E t \in Callers : WaitTimeout(t)
    \/ \E t \in Callers : Take(t)
    \/ \E d \in TimeSteps : AdvanceTime(d)
    \/ \E c \in ReplyIds, b \in Bodies : Reply(c, b)
    \/ DropConnection

\* The client with concurrent direct callers of publish_message.
Next ==
    \/ \E t \in Callers : SendRegister(t, "publish_message")
    \/ ClientNext

Spec == Init /\ [][Next]_vars

\* The HTTP layer: requests handled by the token-check middleware and the
\* forecast route, which send through the client and wait for the reply.
HttpNext ==
    \/ \E t \in HttpCallers, s \in HttpSites : SendRegister(t, s)
    \/ \E t \in HttpCallers, ok \in BOOLEAN : Reconnect(t, ok)
    \/ \E t \in HttpCallers : Resend(t)
    \/ ClientNext

HttpSpec == Init /\ [][HttpNext]_vars

\* the steps of the pump thread
PumpStep ==
    \/ PumpConsume
    \/ PumpAcquire
    \/ PumpPoll
    \/ PumpStore
    \/ PumpAck
    \/ PumpSignal
    \/ PumpSleepRelease

\* the steps of publish_message that follow the registration, but for taking
\* the lock
SendStep(t) ==
    \/ SendRegisterEvent(t)
    \/ SendPublish(t)
    \/ SendReturn(t)

\* The client on a connection that stays up, with callers that only send.
SendNext ==
    \/ \E t \in Callers : SendRegister(t, "publish_message")
    \/ \E t \in Callers : SendStep(t)
    \/ \E t \in Callers : SendAcquire(t)
    \/ PumpStep
    \/ \E c \in ReplyIds, b \in Bodies : Reply(c, b)

\* Every thread that can run does run, and a thread blocked at `with
\* self.__internal_lock` gets the lock if it is released again and again.
FairSpec ==
    /\ Init
    /\ [][SendNext]_vars
    /\ WF_vars(PumpStep)
    /\ \A t \in Callers : WF_vars(SendStep(t)) /\ SF_vars(SendAcquire(t))

\* --------------------------------------------- the _token_check middleware

\* The Authorization header as a sequence of pieces of text: a blank, the
\* word "Bearer" in mixed case (B), the word "bearer" (b), some other text (X)
\* and the text of a UUID (U); NoHeader is a request without the header.
HeaderChars == {" ", "B", "b", "X", "U"}
NoHeader == <<"none">>
Headers ==
    {NoHeader} \cup UNION {[1..n -> HeaderChars] : n \in 0..MaxHeaderLen}

\* str.strip()
RECURSIVE LStrip(_)
LStrip(h) == IF h # <<>> /\ Head(h) = " " THEN LStrip(Tail(h)) ELSE h

RECURSIVE RStrip(_)
RStrip(h) ==
    IF h # <<>> /\ h[Len(h)] = " " THEN RStrip(SubSeq(h, 1, Len(h) - 1)) ELSE h

Strip(h) == RStrip(LStrip(h))

\* str.lower()
LowerChar(c) ==
    CASE c = "B" -> "b"
      [] c = "X" -> "x"
      [] c = "U" -> "u"
      [] OTHER -> c

Lower(h) == [i \in 1..Len(h) |-> LowerChar(h[i])]

\* re.match("Bearer", authorization_header, re.IGNORECASE): the header begins
\* with the word, whatever follows it
MatchBearer(h) == h # <<>> /\ LowerChar(h[1]) = "b"

\* authorization_header.lower().replace("bearer", "").strip()
BearerToken(h) == Strip(SelectSeq(Lower(h), LAMBDA c : c # "b"))

\* uuid.UUID(bearer_token) does not raise ValueError
IsUuid(tok) == tok = <<"u">>

TcResponse(status, error, www) == [status |-> status, error |-> error, www |-> www]

\* no response yet: the request goes on
TcPass == TcResponse(0, "", "")

\* Mutation: the Authorization header is not checked.
HeaderCheckSkipsMissing(h) == TcPass

\* the checks of the Authorization header
HeaderCheck(h) ==
    IF h = NoHeader
    THEN TcResponse(400, "MISSING_CREDENTIALS", "invalid_request")
    ELSE IF Len(Strip(h)) = 0
    THEN TcResponse(400, "BAD_AUTHORIZATION_HEADER", "invalid_request")
    ELSE IF ~MatchBearer(Strip(h))
    THEN TcResponse(400, "INVALID_AUTHORIZATION_SCHEME", "invalid_request")
    ELSE IF ~IsUuid(BearerToken(Strip(h)))
    THEN TcResponse(400, "INVALID_TOKEN_FORMAT", "invalid_token")
    ELSE TcPass

\* JSON values
JNull == [type |-> "null", text |-> ""]
JBool(b) == [type |-> "bool", text |-> IF b THEN "true" ELSE "false"]
JStr(x) == [type |-> "str", text |-> x]
JNumber(x) == [type |-> "number", text |-> x]

\* the introspection replies considered
Replies ==
    { "not json", "[]", "{}",
      "{\"active\": true}", "{\"active\": false}", "{\"active\": null}",
      "{\"active\": \"true\"}", "{\"active\": 1}",
      "{\"active\": false, \"reason\": \"token_expired\"}",
      "{\"active\": false, \"reason\": \"invalid_token\"}",
      "{\"active\": true, \"reason\": \"invalid_token\"}" }

JObject(active, reason) ==
    [ok |-> TRUE, dict |-> TRUE, active |-> active, reason |-> reason]

\* json.loads(raw_introspection_response); a key that is absent reads as
\* None through dict.get(key, None), as a null does
JsonLoads(text) ==
    CASE text = "not json" ->
            [ok |-> FALSE, dict |-> FALSE, active |-> JNull, reason |-> JNull]
      [] text = "[]" ->
            [ok |-> TRUE, dict |-> FALSE, active |-> JNull, reason |-> JNull]
      [] text = "{}" -> JObject(JNull, JNull)
      [] text = "{\"active\": true}" -> JObject(JBool(TRUE), JNull)
      [] text = "{\"active\": false}" -> JObject(JBool(FALSE), JNull)
      [] text = "{\"active\": null}" -> JObject(JNull, JNull)
      [] text = "{\"active\": \"true\"}" -> JObject(JStr("true"), JNull)
      [] text = "{\"active\": 1}" -> JObject(JNumber("1"), JNull)
      [] text = "{\"active\": false, \"reason\": \"token_expired\"}" ->
            JObject(JBool(FALSE), JStr("token_expired"))
      [] text = "{\"active\": false, \"reason\": \"invalid_token\"}" ->
            JObject(JBool(FALSE), JStr("invalid_token"))
      [] text = "{\"active\": true, \"reason\": \"invalid_token\"}" ->
            JObject(JBool(TRUE), JStr("invalid_token"))

\* an exception no except clause of the middleware catches: the server
\* answers 500
Unhandled(name) == TcResponse(500, name, "")

\* the checks of the introspection reply: TcPass lets the request through
IntrospectionCheck(raw) ==
    IF raw = None
    THEN TcResponse(TokenCheckOnResponse(raw).status,
                    TokenCheckOnResponse(raw).error, "")
    ELSE LET j == JsonLoads(raw[1])
         IN  IF ~j.ok THEN TcResponse(500, "TOKEN_INTROSPECTION_ERROR", "")
             ELSE IF ~j.dict THEN Unhandled("AttributeError")
             ELSE IF j.active = JNull
             THEN TcResponse(500, "TOKEN_INTROSPECTION_ERROR", "")
             ELSE IF j.active # JBool(TRUE)
             THEN IF j.reason = JNull
                  THEN TcResponse(401, "UNAUTHORIZED_REQUEST", "invalid_token")
                  ELSE IF j.reason = JStr("token_expired")
                  THEN TcResponse(401, "ACCESS_TOKEN_EXPIRED", "invalid_token")
                  ELSE TcPass
             ELSE TcPass

\* a request arrives at the middleware
TcRequest(h) ==
    [pc |-> "header", header |-> h, sent |-> 0, replaced |-> FALSE,
     raw |-> None, resp |-> TcPass, forwarded |-> FALSE]

\* the middleware returns response r without calling the route handler
TcReturn(r) == [tokenCheck EXCEPT !.pc = "done", !.resp = r]

TcOthersUnchanged ==
    UNCHANGED <<clientVars, waterUsages, etagCheck, hostCheck, csvImport>>

\* lines 262-333
TcCheckHeader ==
    /\ tokenCheck.pc = "header"
    /\ tokenCheck' = IF HeaderCheck(tokenCheck.header) = TcPass
                     THEN [tokenCheck EXCEPT !.pc = "send"]
                     ELSE TcReturn(HeaderCheck(tokenCheck.header))
    /\ TcOthersUnchanged

\* the first _amqp_client.send(...): the message goes out, or send raises
TcSend(ok) ==
    /\ tokenCheck.pc = "send"
    /\ tokenCheck' = IF ok
                     THEN [tokenCheck EXCEPT !.pc = "await", !.sent = @ + 1]
                     ELSE [tokenCheck EXCEPT !.pc = "reconnect"]
    /\ TcOthersUnchanged

\* the except clause: a new client replaces the global one and the request is
\* sent again; an error in either is not caught
TcReconnectAndSend(clientOk, sendOk) ==
    /\ tokenCheck.pc = "reconnect"
    /\ tokenCheck' =
          IF ~clientOk THEN TcReturn(Unhandled("AMQPConnectionError"))
          ELSE IF ~sendOk
          THEN [TcReturn(Unhandled("Exception")) EXCEPT !.replaced = TRUE]
          ELSE [tokenCheck EXCEPT !.pc = "await", !.replaced = TRUE,
                                  !.sent = @ + 1]
    /\ TcOthersUnchanged

\* await_response(id, timeout=5) returns the reply, or None after 5 s
TcAwait(raw) ==
    /\ tokenCheck.pc = "await"
    /\ tokenCheck' = [tokenCheck EXCEPT !.pc = "check", !.raw = raw]
    /\ TcOthersUnchanged

\* lines 361-432: an error response, or call_next(request)
TcCheckReply ==
    /\ tokenCheck.pc = "check"
    /\ tokenCheck' = IF IntrospectionCheck(tokenCheck.raw) = TcPass
                     THEN [tokenCheck EXCEPT !.pc = "done", !.forwarded = TRUE,
                                             !.resp = TcResponse(200, "", "")]
                     ELSE TcReturn(IntrospectionCheck(tokenCheck.raw))
    /\ TcOthersUnchanged

TokenInit ==
    /\ ClientInit
    /\ tokenCheck \in {TcRequest(h) : h \in Headers}
    /\ waterUsages = NotInUse
    /\ etagCheck = NotInUse
    /\ hostCheck = NotInUse
    /\ csvImport = NotInUse

TokenNext ==
    \/ TcCheckHeader
    \/ \E ok \in BOOLEAN : TcSend(ok)
    \/ \E clientOk \in BOOLEAN, sendOk \in BOOLEAN :
          TcReconnectAndSend(clientOk, sendOk)
    \/ \E raw \in {None} \cup {Some(r) : r \in Replies} : TcAwait(raw)
    \/ TcCheckReply

\* One request passing through the token-check middleware.
TokenSpec == TokenInit /\ [][TokenNext]_vars

\* ------------------------------------------- WaterUsages.check_data_consistency

Years == 1..NumYears

\* usages lists: only the amounts' number matters to the validator
UsageLists == UNION {[1..n -> {0}] : n \in 0..MaxUsages}

\* the root validator: "" if the values are accepted, else the ValueError
CheckDataConsistency(start, end, usages) ==
    IF start = end THEN "one set of data"
    ELSE IF Len(usages) # (end + 1) - start THEN "wrong number of entries"
    ELSE ""

NewWaterUsages(start, end, usages) ==
    [pc |-> "new", start |-> start, end |-> end, usages |-> usages, error |-> ""]

\* models.amqp.WaterUsages(start=..., end=..., usages=...)
ValidateWaterUsages ==
    /\ waterUsages.pc = "new"
    /\ LET e == CheckDataConsistency(waterUsages.start, waterUsages.end,
                                     waterUsages.usages)
       IN  waterUsages' = [waterUsages EXCEPT
                              !.pc = IF e = "" THEN "accepted" ELSE "rejected",
                              !.error = e]
    /\ UNCHANGED <<clientVars, tokenCheck, etagCheck, hostCheck, csvImport>>

UsagesInit ==
    /\ ClientInit
    /\ waterUsages \in {NewWaterUsages(s, e, u) :
                           s \in Years, e \in Years, u \in UsageLists}
    /\ tokenCheck = NotInUse
    /\ etagCheck = NotInUse
    /\ hostCheck = NotInUse
    /\ csvImport = NotInUse

UsagesNext == ValidateWaterUsages

\* One WaterUsages object being constructed.
UsagesSpec == UsagesInit /\ [][UsagesNext]_vars

\* ------------------------------------------- the etag_comparison middleware

\* Python values of different types: an object of hashlib, a str, None
HashObject(data) == [type |-> "HASH", value |-> data]
PyStr(data) == [type |-> "str", value |-> data]
PyNone == [type |-> "NoneType", value |-> <<>>]

\* query_hash == if_none_match_value: values of different types are unequal
PyEq(a, b) == a.type = b.type /\ a.value = b.value

EtagRequests ==
    [path : {"/a", "/b"}, query : {"", "k=1"}, body : {"", "{}"}]

\* json.dumps(query_dict, ensure_ascii=False, sort_keys=True)
QueryData(req) == <<req.body, req.path, req.query>>

\* hashlib.sha3_256(query_data.encode("utf-8"))
QueryHash(req) == HashObject(<<"sha3_256">> \o QueryData(req))

\* the text of the digest, as a client holding it would send it
HexDigest(req) == PyStr(<<"sha3_256">> \o QueryData(req))

\* f'"{query_hash}"': the text Python prints for the object
EtagHeader(req) == PyStr(<<"<sha3_256 _hashlib.HASH object>">>)

IfNoneMatchValues ==
    {PyNone} \cup {HexDigest(r) : r \in EtagRequests}
             \cup {EtagHeader(r) : r \in EtagRequests}

Times == 0..MaxTime
NoTime == -1

\* datetime.fromtimestamp(0) for a missing header, else the parsed header
IfModifiedSince(v) == IF v = NoTime THEN 0 ELSE v

EtagRequest(req, inm, ims, last) ==
    [pc |-> "request", req |-> req, inm |-> inm, ims |-> ims, last |-> last,
     status |-> 0, called |-> FALSE, etag |-> PyNone, lastModified |-> NoTime]

\* lines 222-244
EtagComparison ==
    /\ etagCheck.pc = "request"
    /\ LET query_hash == QueryHash(etagCheck.req)
           data_has_changed == IfModifiedSince(etagCheck.ims) < etagCheck.last
       IN  etagCheck' =
              IF PyEq(query_hash, etagCheck.inm) /\ ~data_has_changed
              THEN [etagCheck EXCEPT !.pc = "done", !.status = 304,
                                     !.etag = EtagHeader(etagCheck.req)]
              ELSE [etagCheck EXCEPT !.pc = "done", !.status = 200,
                                     !.called = TRUE,
                                     !.etag = EtagHeader(etagCheck.req),
                                     !.lastModified = etagCheck.last]
    /\ UNCHANGED <<clientVars, tokenCheck, waterUsages, hostCheck, csvImport>>

EtagInit ==
    /\ ClientInit
    /\ etagCheck \in {EtagRequest(r, inm, ims, last) :
                         r \in EtagRequests, inm \in IfNoneMatchValues,
                         ims \in Times \cup {NoTime}, last \in Times}
    /\ tokenCheck = NotInUse
    /\ waterUsages = NotInUse
    /\ hostCheck = NotInUse
    /\ csvImport = NotInUse

EtagNext == EtagComparison

\* One request passing through the ETag middleware.
EtagSpec == EtagInit /\ [][EtagNext]_vars

\* ------------------------------------------------------- is_host_available

\* the timeouts the function is called with, in seconds
Timeouts == 1..DefaultTimeout

\* how long a connection attempt takes before it succeeds or fails; an
\* attempt that hangs is ended by wait_for after AttemptTimeout
AttemptDurations == 0..AttemptTimeout

\* is_host_available(host, port, timeout) is called at time 0
HostCall(timeout) ==
    [pc |-> "loop", timeout |-> timeout, now |-> 0, connected |-> FALSE,
     ret |-> FALSE]

HostOthersUnchanged ==
    UNCHANGED <<clientVars, tokenCheck, waterUsages, etagCheck, csvImport>>

\* while time.time() < _end_time: ... ; return False
HostLoopTest ==
    /\ hostCheck.pc = "loop"
    /\ hostCheck' = IF hostCheck.now < hostCheck.timeout
                    THEN [hostCheck EXCEPT !.pc = "attempt"]
                    ELSE [hostCheck EXCEPT !.pc = "returned", !.ret = FALSE]
    /\ HostOthersUnchanged

\* the connection is opened within the five seconds: return True
HostAttemptSucceeds(d) ==
    /\ hostCheck.pc = "attempt"
    /\ d < AttemptTimeout
    /\ hostCheck' = [hostCheck EXCEPT !.pc = "returned", !.now = @ + d,
                                      !.connected = TRUE, !.ret = TRUE]
    /\ HostOthersUnchanged

\* the attempt fails or is ended by wait_for: the except clause
HostAttemptFails(d) ==
    /\ hostCheck.pc = "attempt"
    /\ hostCheck' = [hostCheck EXCEPT !.pc = "sleep", !.now = @ + d]
    /\ HostOthersUnchanged

\* await asyncio.sleep(5)
HostSleep ==
    /\ hostCheck.pc = "sleep"
    /\ hostCheck' = [hostCheck EXCEPT !.pc = "loop", !.now = @ + RetrySleep]
    /\ HostOthersUnchanged

HostInit ==
    /\ ClientInit
    /\ hostCheck \in {HostCall(t) : t \in Timeouts}
    /\ tokenCheck = NotInUse
    /\ waterUsages = NotInUse
    /\ etagCheck = NotInUse
    /\ csvImport = NotInUse

HostNext ==
    \/ HostLoopTest
    \/ \E d \in AttemptDurations : HostAttemptSucceeds(d)
    \/ \E d \in AttemptDurations : HostAttemptFails(d)
    \/ HostSleep

\* One call of is_host_available.
HostSpec == HostInit /\ [][HostNext]_vars

\* ------------------------------------------------------------- CSV import

\* the names a row of the file or of the table may hold (a unique column)
Names == {"a", "b", "c"}

CsvFiles == UNION {[1..n -> Names] : n \in 0..MaxRows}

\* insert_object: db.add(obj); db.commit().  The row is committed on its own;
\* the commit of a name the table already holds fails with IntegrityError
\* and leaves the table as it is.
InsertObject(table, name) ==
    IF name \in table
    THEN [ok |-> FALSE, table |-> table]
    ELSE [ok |-> TRUE, table |-> table \cup {name}]

\* an import of the file starts on the table
CsvImport(table, file) ==
    [pc |-> "rows", table |-> table, before |-> table, file |-> file,
     row |-> 1, inserted |-> <<>>, error |-> ""]

CsvOthersUnchanged ==
    UNCHANGED <<clientVars, tokenCheck, waterUsages, etagCheck, hostCheck>>

\* one pass of the loop over the rows: insert the row, or raise
\* DuplicateEntryError on IntegrityError
ImportRow ==
    /\ csvImport.pc = "rows"
    /\ csvImport.row <= Len(csvImport.file)
    /\ LET name == csvImport.file[csvImport.row]
           r == InsertObject(csvImport.table, name)
       IN  csvImport' =
              IF r.ok
              THEN [csvImport EXCEPT !.table = r.table, !.row = @ + 1,
                                     !.inserted = Append(@, name)]
              ELSE [csvImport EXCEPT !.pc = "raised",
                                     !.error = "DuplicateEntryError"]
    /\ CsvOthersUnchanged

\* the loop is over: return the inserted objects
ImportReturn ==
    /\ csvImport.pc = "rows"
    /\ csvImport.row > Len(csvImport.file)
    /\ csvImport' = [csvImport EXCEPT !.pc = "returned"]
    /\ CsvOthersUnchanged

ImportInit ==
    /\ ClientInit
    /\ csvImport \in {CsvImport(t, f) : t \in SUBSET Names, f \in CsvFiles}
    /\ tokenCheck = NotInUse
    /\ waterUsages = NotInUse
    /\ etagCheck = NotInUse
    /\ hostCheck = NotInUse

ImportNext ==
    \/ ImportRow
    \/ ImportReturn

\* One import of a CSV file of counties, communes, consumer types or
\* municipals.
ImportSpec == ImportInit /\ [][ImportNext]_vars

\* ================================================================ claims

Decoded(d) == Some(Utf8Decode(d.body).str)

\* the deliveries the pump has taken off the reply queue so far
Taken == {replyLog[i] : i \in 1..qHead}

\* the pump thread performs a step of the message handler
HandlerStep == pumpPc \in {"store", "ack", "signal"} /\ pumpPc' # pumpPc

\* every entry of f except the one of key x is the same in g
OthersKept(f, g, x) == \A k \in DOMAIN f \ {x} : k \in DOMAIN g /\ g[k] = f[k]

\* C1: a delivery with correlation id X changes only the stored response and
\* the event of X; once the handler has processed it, responses[X] is the
\* payload of that delivery and the event of X is set; and whatever a wait
\* returns to a caller is the payload of a delivery that carried the caller's
\* own id, whatever the order in which the replies arrived.
C1_NoCrossDelivery ==
    [][ /\ HandlerStep =>
            /\ OthersKept(responses, responses', pumpCur.cid)
            /\ OthersKept(events, events', pumpCur.cid)
            /\ (pumpPc' = "ack" => responses'[pumpCur.cid] = Decoded(pumpCur))
            /\ (pumpPc' = "poll" =>
                    /\ pumpCur.cid \in DOMAIN responses'
                    /\ responses'[pumpCur.cid] = Decoded(pumpCur)
                    /\ events'[pumpCur.cid])
        /\ \A t \in Callers :
              (pc'[t] = "done" /\ result'[t] # None) =>
                  \E d \in Taken : d.cid = cid'[t] /\ Decoded(d) = result'[t]
      ]_vars

\* C1 witness: two calls, the reply to the second arrived before the reply to
\* the first, and each caller got its own, different payload.
C1_Witness ==
    /\ \A t \in Callers : pc[t] = "done" /\ result[t] # None
    /\ \E t, u \in Callers : result[t] # result[u]
    /\ Len(replyLog) >= 2
    /\ replyLog[1].cid \in IssuedIds
    /\ replyLog[2].cid \in IssuedIds
    /\ replyLog[1].cid > replyLog[2].cid

PublishedIds == {m.cid : m \in published}

\* C2: the id is registered, in responses and in events, before basic_publish
\* is called for it, so whenever the pump handles a reply to a published
\* message its id is registered and the handler does not fail on the lookup.
C2_RegisteredBeforePublish ==
    /\ \A t \in Callers :
          pc[t] \in {"publish", "unlock", "returned", "waiting", "done"} =>
              cid[t] \in DOMAIN responses /\ cid[t] \in DOMAIN events
    /\ \A c \in PublishedIds : c \in DOMAIN responses /\ c \in DOMAIN events
    /\ (pumpError = "KeyError" => pumpCur.cid \notin PublishedIds)

\* C2 witness: the reply is handled as soon as publish_message has returned,
\* before the caller started to wait.
C2_Witness ==
    \E t \in Callers :
        pc[t] = "returned" /\ pumpPc = "signal" /\ pumpCur.cid = cid[t]

\* the deliveries still on the reply queue
OnQueue == {replyLog[i] : i \in (qHead + 1)..Len(replyLog)}

\* C3, as stated: a reply with the id of an outstanding call that is on the
\* reply queue of a working connection is eventually stored and signalled by
\* the pump.  A pump thread that has ended takes no further step, so the
\* claim requires that the pump is alive whenever such a reply is waiting.
C3_ReplyEventuallyStored ==
    (conn = "open" /\ \E d \in OnQueue : d.cid \in DOMAIN events /\ ~events[d.cid])
        => pumpPc # "dead"

\* C4, as stated: a delivery whose correlation id matches no registered call
\* is acknowledged and discarded; the handler raises no error and leaves
\* responses and events as they were.
C4_UnmatchedDiscarded ==
    [][ (HandlerStep /\ pumpCur.cid \in UnmatchedIds) =>
            /\ responses' = responses
            /\ events' = events
            /\ pumpError' # "KeyError"
      ]_vars

\* C5, as stated: a delivery whose processing fails never stops the pump: the
\* pump thread is not ended by an error of the message handler.
C5_PumpSurvivesBadMessage ==
    pumpPc = "dead" => pumpError \notin {"KeyError", "UnicodeDecodeError"}

\* C6, as stated: publish_message hands its message to the broker and returns
\* the id only while the pump is still consuming the reply queue; after the
\* pump thread has ended it raises instead.
C6_ReturnedIdCanBeFulfilled ==
    [][ \A t \in Callers :
            (pc[t] = "publish" /\ pc'[t] = "unlock") => pumpPc # "dead"
      ]_vars

\* C7, as stated: a send that fails on a broken connection surfaces the
\* failure to its caller only after exactly one reconnect and one retry.
C7_OneReconnectAndRetry ==
    \A t \in Callers : pc[t] = "raised" => reconnects[t] = 1 /\ attempts[t] = 2

C9_NoSpuriousTimeout ==
    [][ \A t \in Callers :
            (pc[t] = "returned" /\ IsSet(cid[t]) /\ pc'[t] # pc[t]) =>
                /\ pc'[t] = "done"
                /\ waitKind'[t] = "immediate"
                /\ result'[t] # None
                /\ result'[t] = lastStored[cid[t]]
      ]_vars

\* C9 witness: a wait began with the event already set and returned a payload.
C9_Witness ==
    \E t \in Callers : waitKind[t] = "immediate" /\ result[t] # None

C11_SecondDeliverySafe ==
    [][ (HandlerStep /\ IsSet(pumpCur.cid)) =>
            /\ pumpError' \notin {"KeyError", "UnicodeDecodeError"}
            /\ events'[pumpCur.cid]
            /\ responses'[pumpCur.cid] # None
            /\ \E d \in Taken : d.cid = pumpCur.cid
                                /\ Utf8Decode(d.body).ok
                                /\ responses'[pumpCur.cid] = Decoded(d)
      ]_vars

\* caller t starts a call: publish_message draws its id and registers it
Registers(t) == pc[t] \in {"idle", "retry"} /\ pc'[t] = "reg_event"

\* C12: the id publish_message draws is not a key of the registry and not the
\* id of another caller's call, registering it leaves every existing entry as
\* it was, and no two callers ever have calls with the same id.
C12_FreshIdRegistered ==
    /\ [](\A t, u \in Callers :
            (t # u /\ pc[t] # "idle" /\ pc[u] # "idle") => cid[t] # cid[u])
    /\ [][ \A t \in Callers : Registers(t) =>
              /\ cid'[t] \notin DOMAIN responses \cup DOMAIN events
              /\ \A u \in Callers \ {t} : pc[u] # "idle" => cid[u] # cid'[t]
              /\ OthersKept(responses, responses', cid'[t])
              /\ OthersKept(events, events', cid'[t])
         ]_vars

\* both callers have a pending call in the registry at the same time
C12_Witness ==
    /\ \A t \in Callers : pc[t] \in {"lock", "publish", "unlock", "returned"}
                          /\ cid[t] \in DOMAIN events
                          /\ responses[cid[t]] = None
    /\ Cardinality(DOMAIN events) = NumCallers

PumpBlocked == pumpPc = "acquire" /\ lock # "free"
SenderBlocked(t) == pc[t] = "lock" /\ lock # "free"

\* C14: the lock is free or held by a thread that is inside its with block and
\* can take its next step without waiting for anything, so the pump and the
\* senders are never all blocked on the lock; also after the pump thread ended
\* with an error.
C14_NoDeadlock ==
    /\ lock = "pump" =>
          /\ pumpPc \in {"poll", "store", "ack", "signal", "sleep"}
          /\ ENABLED PumpStep
    /\ \A t \in Callers :
          lock = Holder(t) =>
              /\ pc[t] \in {"publish", "unlock"}
              /\ ENABLED (SendPublish(t) \/ SendReturn(t))
    /\ lock \in {"free", "pump"} \cup {Holder(t) : t \in Callers}
    /\ (PumpBlocked \/ \E t \in Callers : SenderBlocked(t)) =>
          \/ lock = "pump" /\ ~PumpBlocked
          \/ \E u \in Callers : lock = Holder(u) /\ ~SenderBlocked(u)

\* the handler raised while the pump held the lock, and afterwards a sender
\* holds the lock while the other one waits for it
C14_Witness ==
    /\ pumpPc = "dead"
    /\ pumpError \in {"KeyError", "UnicodeDecodeError"}
    /\ \E t, u \in Callers : lock = Holder(t) /\ SenderBlocked(u)

\* C15, as stated: whenever the pump is between two polls, sleeping or about
\* to take the lock again, the pump does not hold the lock.
C15_LockFreeBetweenPolls ==
    pumpPc \in {"sleep", "acquire"} => lock # "pump"

\* the pump thread is at basic_consume, process_data_events or basic_ack
PumpAtChannelOp == pumpPc \in {"consume", "poll", "ack"}

\* caller t is at basic_publish
SenderAtChannelOp(t) == pc[t] = "publish"

\* C16, as stated: a thread that performs a channel operation holds the lock
\* while it does, and no two threads are at a channel operation at once.
C16_ChannelOpsUnderLock ==
    /\ [][ /\ (PumpAtChannelOp /\ pumpPc' # pumpPc) => lock = "pump"
           /\ \A t \in Callers :
                 (SenderAtChannelOp(t) /\ pc'[t] # pc[t]) => lock = Holder(t)
         ]_vars
    /\ [](\A t \in Callers : ~(PumpAtChannelOp /\ SenderAtChannelOp(t)))

\* a step writes to the registry
RegistryWrite == responses' # responses \/ events' # events

\* C17, as stated: a step that writes to the registry is a step of a thread
\* that holds the lock: the handler under the pump's lock, or a caller that has
\* taken the lock.
C17_RegistryWritesUnderLock ==
    [][ RegistryWrite =>
            \/ HandlerStep /\ lock = "pump"
            \/ \E t \in Callers : pc'[t] # pc[t] /\ lock = Holder(t)
      ]_vars

\* the callers whose call has started and whose result has not been read
Outstanding == {t \in Callers : pc[t] # "idle" /\ ~(pc[t] = "done" /\ result[t] # None)}

\* C18, as stated: the registry holds entries of outstanding calls only, so
\* it is never larger than the number of calls still outstanding.
C18_RegistryBounded ==
    /\ DOMAIN responses \cup DOMAIN events \subseteq {cid[t] : t \in Outstanding}
    /\ Cardinality(DOMAIN responses) <= Cardinality(Outstanding)

\* publish_message has returned the id of caller t's call to the caller
HasReturned(t) == pc[t] \in {"returned", "waiting", "done"}

\* C19: every published message names as reply-to the exclusive, auto-delete
\* queue declared at construction and carries the id of a call in progress,
\* and for every call that has returned exactly one message was published
\* with the id returned.
C19_PublishedProperties ==
    /\ \A m \in published :
          /\ m.reply_to = QueueDeclare.queue
          /\ QueueDeclare.exclusive /\ QueueDeclare.auto_delete
          /\ \E t \in Callers : cid[t] = m.cid
                                /\ (pc[t] = "unlock" \/ HasReturned(t))
    /\ \A t \in Callers :
          HasReturned(t) =>
              Cardinality({m \in published : m.cid = cid[t]}) = 1

\* both callers have published and got their ids back
C19_Witness ==
    /\ \A t \in Callers : pc[t] = "returned"
    /\ Cardinality(published) = NumCallers

\* the handler acknowledges the delivery it is working on
AckStep == pumpPc = "ack" /\ acked' # acked

\* C20, as stated: when the handler acknowledges a delivery that matches a
\* registered call, the payload is stored and the call's event is already set.
C20_SignalBeforeAck ==
    [][ (AckStep /\ pumpCur.cid \in DOMAIN events) =>
            /\ responses[pumpCur.cid] = Decoded(pumpCur)
            /\ events[pumpCur.cid]
      ]_vars

\* C23: whenever the event of a registered id is set, the response stored
\* for the id is a payload, and a wait that the event ended returned a payload
\* and not an absent result.
C23_SetImpliesStored ==
    /\ \A id \in DOMAIN events :
          events[id] => id \in DOMAIN responses /\ responses[id] # None
    /\ \A t \in Callers :
          (pc[t] = "done" /\ waitKind[t] \in {"immediate", "woken"}) =>
              result[t] # None

\* one caller was woken by the event while the other one's call is still
\* registered without a reply
C23_Witness ==
    \E t, u \in Callers :
        /\ pc[t] = "done" /\ waitKind[t] = "woken" /\ events[cid[t]]
        /\ pc[u] = "waiting" /\ ~events[cid[u]] /\ responses[cid[u]] = None

\* C24, as stated: after publish_message failed for caller t, the registry
\* holds no entry for the id of the message that was not published.
C24_FailedPublishUnregistered ==
    \A t \in Callers :
        (pc[t] = "raised" /\ cid[t] \notin PublishedIds) =>
            cid[t] \notin DOMAIN responses \cup DOMAIN events

\* the handler is done with the delivery it was working on: it returns to
\* process_data_events or ends with an error of its own
HandlerLeaves ==
    /\ HandlerStep
    /\ pumpPc' \in {"poll", "dead"}
    /\ pumpError' # "ConnectionError"

\* C25, as stated: when the handler is done with a delivery, the delivery has
\* been acknowledged exactly once, whatever its correlation id and payload.
C25_AckedExactlyOnce ==
    [][ HandlerLeaves =>
            /\ pumpCur.tag \in DOMAIN acked'
            /\ acked'[pumpCur.tag] = 1
      ]_vars

\* Client instances: every caller sends through an instance of its own.
\* responses, events and __internal_lock are attributes of the class, not of
\* the instance, so every instance reads and writes the same three objects.
InstanceOf(t) == t
RegistryOf(i) == [responses |-> responses, events |-> events]
InternalLockOf(i) == lock

\* C22, as stated: a registration through one instance leaves the registry of
\* every other instance as it was, and a caller that holds the lock of its
\* instance never keeps a sender on another instance waiting.
C22_InstancesIndependent ==
    /\ [][ \A t \in Callers :
              (Registers(t) \/ (pc[t] = "reg_event" /\ pc'[t] = "lock")) =>
              \A u \in Callers \ {t} :
                  RegistryOf(InstanceOf(u))' = RegistryOf(InstanceOf(u))
         ]_vars
    /\ [](\A t \in Callers, u \in Callers :
              (/\ InstanceOf(t) # InstanceOf(u)
               /\ InternalLockOf(InstanceOf(t)) = Holder(t)) => pc[u] # "lock")

\* the reply the middleware received says that the token is active
ReplyActive(raw) ==
    raw # None /\ JsonLoads(raw[1]).ok /\ JsonLoads(raw[1]).dict
               /\ JsonLoads(raw[1]).active = JBool(TRUE)

\* C21, as stated: the middleware calls the route handler only after an
\* introspection reply whose field active is true; in every other outcome it
\* has returned an error response.
C21_ForwardOnlyIfActive ==
    /\ tokenCheck.forwarded => ReplyActive(tokenCheck.raw)
    /\ (tokenCheck.pc = "done" /\ ~ReplyActive(tokenCheck.raw)) =>
          tokenCheck.resp.status \in {400, 401, 500}

\* the header is missing, empty, not of the Bearer scheme, or its token is
\* not formatted as a UUID
BadHeader(h) ==
    \/ h = NoHeader
    \/ \A i \in 1..Len(h) : h[i] = " "
    \/ LowerChar(LStrip(h)[1]) # "b"
    \/ BearerToken(h) # <<"u">>

C27_AcceptedIffConsistent ==
    waterUsages.pc \in {"accepted", "rejected"} =>
        (waterUsages.pc = "accepted" <=>
            /\ waterUsages.start < waterUsages.end
            /\ Len(waterUsages.usages) = waterUsages.end - waterUsages.start + 1)

\* the client sent the hash of this request and the data was not modified
\* after the time it sent
NotModified ==
    /\ etagCheck.inm = HexDigest(etagCheck.req)
    /\ ~(IfModifiedSince(etagCheck.ims) < etagCheck.last)

\* C28, as stated: the middleware answers 304 without calling the handler
\* exactly when the client's If-None-Match is the hash of the request and the
\* data was not modified since; otherwise it calls the handler and adds the
\* ETag and Last-Modified headers.
C28_NotModifiedIffMatch ==
    etagCheck.pc = "done" =>
        IF NotModified
        THEN etagCheck.status = 304 /\ ~etagCheck.called
        ELSE /\ etagCheck.called
             /\ etagCheck.etag # PyNone
             /\ etagCheck.lastModified = etagCheck.last

\* C29, as stated: the call returns True exactly if a connection attempt
\* succeeded, and it returns no later than timeout seconds after the call.
C29_ReturnsWithinTimeout ==
    hostCheck.pc = "returned" =>
        /\ hostCheck.ret = hostCheck.connected
        /\ hostCheck.now <= hostCheck.timeout

\* C30, as stated: an import that ended with DuplicateEntryError has left the
\* table as it was when the import started.
C30_FailedImportRolledBack ==
    csvImport.pc = "raised" => csvImport.table = csvImport.before

====
